---------------------------- MODULE Spec2Model ----------------------------
(***************************************************************************)
(* Model of app/services/daily_subscription_service.py                     *)
(* (DailySubscriptionService): the daily charge processor                  *)
(* (process_daily_charges / _process_single_charge), the traffic quota     *)
(* decay processor (process_traffic_resets / _reset_subscription_traffic)  *)
(* and the loop that calls them (start_monitoring / stop_monitoring).      *)
(*                                                                         *)
(* Time is counted in billing cycles (one unit = 24 hours).  The CRUD      *)
(* helpers imported from app.database.crud.* are store primitives whose    *)
(* effect is taken from the interface description of the store; each is    *)
(* durable when it returns.  A call that can raise and is handled by the   *)
(* service is an input of the step that makes it.                          *)
(***************************************************************************)
EXTENDS Integers, FiniteSets, Sequences, TLC

\* ------------------------------------------------------------------ bounds
MaxTime == 1
MaxBalance == 2
MaxPrice == 1
MaxDevices == 2

MaxGb == 2
MaxBase == 1
MaxLimit == 2
MaxPurchased == 2

\* One billing cycle, in time units ("next charge in 24 hours").
CycleLen == 1

\* ------------------------------------------------------------ fixed domains
Accounts == {"a1", "a2"}
Subs == {"s1", "s2", "s3"}

\* subscription.user_id: two subscriptions share account a1.
UserId(s) == IF s = "s3" THEN "a2" ELSE "a1"

Times == 0..MaxTime

\* Traffic purchases (quota lots) and the subscription each belongs to.
Lots == {"l1", "l2", "l3"}
LotSub(l) == IF l = "l3" THEN "s2" ELSE "s1"
LotsOf(s) == {l \in Lots : LotSub(l) = s}

\* Optional column values: <<>> is NULL / None, <<v>> is the value v.
None == <<>>
Some(v) == <<v>>
OrZero(x) == IF x = None THEN 0 ELSE x[1]

Max(a, b) == IF a >= b THEN a ELSE b
Min(a, b) == IF a <= b THEN a ELSE b

VARIABLES
    now,          \* datetime.utcnow(), in cycles
    pc,           \* which processor is running: "idle", "charge", "decay"
    balance,      \* User.balance_kopeks per account
    status,       \* Subscription.status
    nextCharge,   \* next-charge due timestamp of a subscription
    daily,        \* billing cadence flag (per-day pricing enabled)
    ledger,       \* append-only transaction log
    debitCount,   \* history: debits taken for the current due timestamp of a subscription
    batch,        \* due subscriptions of the running charge pass not yet processed
    stats,        \* counters of the running / last charge pass
    last,         \* history: what the last _process_single_charge call of the pass did
    cpass,        \* history: the running charge pass
    seen,         \* user.balance_kopeks as loaded into the session of the pass
    blocked,      \* the awaited external call the charge pass is stuck in
    alive,        \* TrafficPurchase rows that exist
    lotGb,        \* TrafficPurchase.traffic_gb
    lotExp,       \* TrafficPurchase.expires_at
    subExists,    \* Subscription rows that exist
    tariffLimit,  \* Tariff.traffic_limit_gb, the base allotment of the plan
    limit,        \* Subscription.traffic_limit_gb
    purchased,    \* Subscription.purchased_traffic_gb (optional)
    resetAt,      \* Subscription.traffic_reset_at (optional)
    selected,     \* expired purchases of the running decay pass not yet handled
    dstats,       \* counters of the running decay pass
    dlast,        \* history: what the last _reset_subscription_traffic call did
    run,          \* history: the running decay pass
    prev,         \* history: the previous decay pass and the quota fields it left
    held,         \* the Subscription row a reconciliation has loaded and not yet written
    running,      \* self._running
    lpc,          \* where each start_monitoring coroutine stands
    lastRet,      \* history: how the last processor call of a loop ended
    stopSeen,     \* history: stop_monitoring was called after the loop was started
    late,         \* history: the loop began an iteration after that
    it            \* history: what the current iteration of the loop has done

chargeVars == <<balance, status, nextCharge, daily, ledger, debitCount, batch, stats, last, cpass,
               seen, blocked>>
lotVars == <<lotGb, lotExp, subExists, tariffLimit>>
quotaVars == <<alive, limit, purchased, resetAt>>
passVars == <<selected, dstats, dlast, run, prev, held>>
decayVars == <<lotVars, quotaVars, passVars>>
loopVars == <<running, lpc, lastRet, stopSeen, late>>
driverVars == <<loopVars, it>>
vars == <<now, pc, chargeVars, decayVars, driverVars>>

\* ------------------------------------------------- device count (oracle)
\* What the call to the provisioning panel can come back with.
OracleOutcomes ==
    [kind : {"no_uuid", "unconfigured", "failed"}, total : {0}]
        \cup [kind : {"ok"}, total : 0..MaxDevices]

\* The oracle is not asked (the call returns "error" before).
NoOracle == [kind |-> "none", total |-> 0]

\* Faulty variant: the reported count is used as it is.
GetDeviceCount_NoFloor(o) ==
    IF o.kind = "ok" THEN o.total ELSE 1

GetDeviceCount(o) ==
    IF o.kind = "ok" THEN Max(1, o.total) ELSE 1

\* An awaited call of the panel (get_user_devices, create_remnawave_user)
\* comes back, by returning or raising, or it never does.
ExternalCalls == {"returns", "never_returns"}

\* --------------------------------------------------- charge computation
ValidPrice(daily_price_per_device) == ~(daily_price_per_device <= 0)

\* Faulty variant: the charge forgets the device count.
TotalDailyPrice_IgnoresDevices(daily_price_per_device, device_count) ==
    daily_price_per_device

TotalDailyPrice(daily_price_per_device, device_count) ==
    daily_price_per_device * device_count

InsufficientBalance(balance_kopeks, total_daily_price) ==
    balance_kopeks < total_daily_price

\* --------------------------------------------------- store primitives
\* debit(account, amount) -> success | insufficient_funds | error:
\* atomic check-and-decrement; on anything but success the balance is kept.
DebitResults == {"success", "refused", "raised"}

\* Faulty variant: the primitive relies on the check of its caller.
DebitPossible_TrustsCaller(bal, amount, res) == TRUE

DebitPossible(bal, amount, res) ==
    res = "success" => bal >= amount

\* Faulty variant: the decrement takes one unit too many.
SubtractUserBalance_OffByOne(bal, amount, res) ==
    IF res = "success" THEN bal - amount - 1 ELSE bal

SubtractUserBalance(bal, amount, res) ==
    IF res = "success" THEN bal - amount ELSE bal

\* append_ledger_entry(account, amount, category, description)
CreateTransaction(log, a, amount) ==
    Append(log, [account |-> a, amount |-> amount])

\* last_charge_at becomes now: the next charge is due one cycle later.
UpdateDailyChargeTime(t) == t + CycleLen

\* suspend for insufficient balance: status becomes disabled.
SuspendDailySubscription(st) == "disabled"

\* A subscription is due when its cadence flag is set and its next-charge
\* timestamp is at or before the current time.
GetDailySubscriptionsForCharge ==
    {s \in Subs : daily[s] /\ nextCharge[s] <= now}

\* ------------------------------------------------------------ initial state
NoCharge ==
    [sub |-> "none", outcome |-> "none", price |-> 0, devices |-> 0,
     balBefore |-> 0, balAfter |-> 0, debit |-> "none",
     nextBefore |-> 0, nextAfter |-> 0, statusAfter |-> "active",
     ledgerBefore |-> 0, oracle |-> NoOracle, notice |-> "none",
     seenBefore |-> 0]

ZeroStats == [checked |-> 0, charged |-> 0, suspended |-> 0, errors |-> 0]

\* No charge pass is running: whether the query raised, the subscriptions it
\* returned, those handled so far, those whose handling raised, and the
\* number of debits the pass has taken.
NoPass == [queryFailed |-> FALSE, picked |-> {}, done |-> {}, raised |-> {},
           debits |-> 0]

InitCharge ==
    /\ balance \in [Accounts -> 0..MaxBalance]
    /\ balance["a2"] = MaxBalance
    /\ status = [s \in Subs |-> "active"]
    /\ nextCharge = [s \in Subs |-> 0]
    /\ daily = [s \in Subs |-> s # "s3"]
    /\ ledger = <<>>
    /\ debitCount = [s \in Subs |-> 0]
    /\ batch = {}
    /\ stats = ZeroStats
    /\ last = NoCharge
    /\ cpass = NoPass
    /\ seen = balance
    /\ blocked = "none"

\* No subscription is enrolled in per-day billing.
InitNoCharge ==
    /\ balance = [a \in Accounts |-> 0]
    /\ status = [s \in Subs |-> "active"]
    /\ nextCharge = [s \in Subs |-> 0]
    /\ daily = [s \in Subs |-> FALSE]
    /\ ledger = <<>>
    /\ debitCount = [s \in Subs |-> 0]
    /\ batch = {}
    /\ stats = ZeroStats
    /\ last = NoCharge
    /\ cpass = NoPass
    /\ seen = balance
    /\ blocked = "none"

\* ------------------------------------------------- quota lots, initial
RECURSIVE SumGb(_, _)
SumGb(gb, S) ==
    IF S = {} THEN 0
    ELSE LET l == CHOOSE x \in S : TRUE
         IN  gb[l] + SumGb(gb, S \ {l})

\* The earliest expiry among a set of purchases, None for the empty set.
NextExpiry(exp, S) ==
    IF S = {} THEN None
    ELSE Some(CHOOSE t \in {exp[l] : l \in S} : \A l \in S : t <= exp[l])

NoReset ==
    [sub |-> "none", result |-> "none", oldLimit |-> 0, oldPurchased |-> 0,
     sumExpired |-> 0, reclaimed |-> 0, base |-> 0, guard |-> FALSE,
     purchases |-> {}, at |-> 0]

ZeroDecayStats == [checked |-> 0, reset |-> 0, errors |-> 0]

NoRun == [at |-> 0, ok |-> FALSE]
NoPrev == [has |-> FALSE, ok |-> FALSE, at |-> 0, end |-> 0,
           limit |-> <<>>, purchased |-> <<>>]

\* No reconciliation is between its load and its write.
NoHeld == [sub |-> "none", limit |-> 0, purchased |-> <<>>]

InitPass ==
    /\ held = NoHeld
    /\ selected = {}
    /\ dstats = ZeroDecayStats
    /\ dlast = NoReset
    /\ run = NoRun
    /\ prev = NoPrev

\* The sizes of the purchases: one of each subscription is of any size.
LotSizes == {gb \in [Lots -> 1..MaxGb] : gb["l2"] = MaxGb /\ gb["l3"] = 1}

\* No traffic purchase exists.
InitNoLots ==
    /\ alive = {}
    /\ lotGb = [l \in Lots |-> 1]
    /\ lotExp = [l \in Lots |-> 0]
    /\ subExists = Subs
    /\ tariffLimit = 0
    /\ limit = [s \in Subs |-> 0]
    /\ purchased = [s \in Subs |-> Some(0)]
    /\ resetAt = [s \in Subs |-> None]
    /\ InitPass

\* Purchases exist and the quota fields agree with them: purchased_traffic
\* is the sum of the subscription's lots and traffic_limit is the base
\* allotment of the plan plus purchased_traffic.
InitLots ==
    /\ alive = Lots
    /\ lotGb \in LotSizes
    /\ lotExp \in [Lots -> Times]
    /\ subExists = Subs
    /\ tariffLimit \in 0..MaxBase
    /\ purchased = [s \in Subs |-> Some(SumGb(lotGb, LotsOf(s)))]
    /\ limit = [s \in Subs |-> tariffLimit + SumGb(lotGb, LotsOf(s))]
    /\ resetAt = [s \in Subs |-> NextExpiry(lotExp, LotsOf(s))]
    /\ InitPass

\* ------------------------------------------------- driver loop, initial
\* Calls of start_monitoring: each is a coroutine with its own while loop.
Loops == {"m1", "m2"}

NoIter == [chargeFailed |-> FALSE, decayFailed |-> FALSE, debited |-> FALSE,
           suspended |-> FALSE, reclaimed |-> FALSE,
           chargeDone |-> FALSE, decayDone |-> FALSE]

\* __init__: not running, start_monitoring was never called.
InitNoDriver ==
    /\ running = FALSE
    /\ lpc = [l \in Loops |-> "none"]
    /\ lastRet = [l \in Loops |-> "none"]
    /\ stopSeen = [l \in Loops |-> FALSE]
    /\ late = [l \in Loops |-> FALSE]
    /\ it = NoIter

InitChargeWorld ==
    /\ now = 0
    /\ pc = "idle"
    /\ InitCharge
    /\ InitNoLots
    /\ InitNoDriver

\* ------------------------------------------------------------------ clock
Tick ==
    /\ now < MaxTime
    /\ now' = now + 1
    /\ UNCHANGED <<pc, chargeVars, decayVars, driverVars>>

\* ------------------------------------------------- process_daily_charges
\* Faulty variant: the rows are handled although the query raised.
Selected_IgnoresFailure(queryFails, rows) == rows

\* The rows a pass goes through: none when its query raised (the exception
\* leaves the try block before the loop).
Selected(queryFails, rows) == IF queryFails THEN {} ELSE rows

\* Opens the session and queries the due subscriptions; when the query
\* raises, the pass ends with empty counters.
QueryDueSubscriptions ==
    /\ pc = "idle"
    /\ \E queryFails \in BOOLEAN :
          IF queryFails
          THEN /\ batch' = Selected(TRUE, GetDailySubscriptionsForCharge)
               /\ stats' = ZeroStats
               /\ cpass' = [NoPass EXCEPT !.queryFailed = TRUE]
               /\ seen' = seen
          ELSE /\ batch' = Selected(FALSE, GetDailySubscriptionsForCharge)
               /\ stats' = [ZeroStats EXCEPT
                               !.checked = Cardinality(GetDailySubscriptionsForCharge)]
               /\ cpass' = [NoPass EXCEPT !.picked = GetDailySubscriptionsForCharge]
               \* the rows are loaded with their accounts
               /\ seen' = balance
    /\ pc' = "charge"
    /\ UNCHANGED <<now, balance, status, nextCharge, daily, ledger, debitCount, last,
                   blocked>>
    /\ UNCHANGED decayVars

\* Faulty variant: a successful charge reactivates the subscription.
StatusAfterCharge_Reactivates(st, suspend, advanced) ==
    IF suspend THEN SuspendDailySubscription(st)
    ELSE IF advanced THEN "active" ELSE st

\* Subscription.status after _process_single_charge: only the branch for an
\* insufficient balance touches it.
StatusAfterCharge(st, suspend, advanced) ==
    IF suspend THEN SuspendDailySubscription(st) ELSE st

\* Faults of the steps that follow the debit inside the try block.
PostDebitFaults == {"none", "ledger", "advance"}

\* subscription.user, or get_user_by_id when the relation is not loaded: the
\* account is found, missing, or the lookup raises (caught by the caller).
UserLookups == {"found", "missing", "raises"}

\* Faulty variant: an error ends the loop over the batch.
RestOfBatch_AbortsOnError(rest, s, outcome) ==
    IF outcome = "error" THEN {} ELSE rest \ {s}

\* The loop goes on to the next subscription whatever the outcome was.
RestOfBatch(rest, s, outcome) == rest \ {s}

\* The notification _process_single_charge goes on to send (when a bot is
\* set): _notify_insufficient_balance after a suspension, _notify_daily_charge
\* after a charge, none on the paths that return "error".
Notification_AlsoOnError(outcome) ==
    IF outcome = "charged" THEN "daily_charge" ELSE "insufficient_balance"

Notification(outcome) ==
    IF outcome = "suspended" THEN "insufficient_balance"
    ELSE IF outcome = "charged" THEN "daily_charge"
    ELSE "none"

\* Outcome of _process_single_charge.
ChargeOutcome(userFound, tariffFound, price, bal, total, res, fault) ==
    IF ~userFound \/ ~tariffFound \/ ~ValidPrice(price) THEN "error"
    ELSE IF InsufficientBalance(bal, total) THEN "suspended"
    ELSE IF res # "success" THEN "error"
    ELSE IF fault # "none" THEN "error"
    ELSE "charged"

\* One iteration of the loop over the batch: _process_single_charge for one
\* subscription and the counter update of the caller.  calls says how the
\* awaited calls of the panel can end; a call that never returns leaves the
\* coroutine at its await, with what was done before it.  keep says whether
\* the history remembers the answer of the oracle.
ProcessSingleChargeIf(calls, keep) ==
    /\ pc = "charge"
    /\ blocked = "none"
    \* an input that is not consulted is fixed, to keep one step per case
    /\ \E s \in batch, user \in UserLookups :
       \E tariffFound \in IF user = "found" THEN BOOLEAN ELSE {TRUE} :
       \E price \in IF user = "found" /\ tariffFound THEN 0..MaxPrice ELSE {0} :
        LET a == UserId(s)
            userFound == user = "found"
            bal == balance[a]
            inSession == seen[a]
            resolved == userFound /\ tariffFound /\ ValidPrice(price)
        IN
       \E oracleCall \in IF resolved THEN calls ELSE {"returns"} :
        LET waitsForOracle == resolved /\ oracleCall = "never_returns"
            counted == resolved /\ ~waitsForOracle
        IN
       \E o \in IF counted THEN OracleOutcomes ELSE {[kind |-> "failed", total |-> 0]} :
        LET device_count == GetDeviceCount(o)
            total == TotalDailyPrice(price, device_count)
            suspend == counted /\ InsufficientBalance(inSession, total)
            tryDebit == counted /\ ~InsufficientBalance(inSession, total)
        IN
       \E res \in IF tryDebit THEN DebitResults ELSE {"raised"} :
        LET debited == tryDebit /\ res = "success" IN
       \E fault \in IF debited THEN PostDebitFaults ELSE {"none"} :
        LET appended == debited /\ fault # "ledger"
            advanced == debited /\ fault = "none"
        IN
       \E syncCall \in IF advanced THEN calls ELSE {"returns"} :
        LET waitsForSync == advanced /\ syncCall = "never_returns"
            returned == ~waitsForOracle /\ ~waitsForSync
            outcome == ChargeOutcome(userFound, tariffFound, price, inSession, total, res, fault)
            newBal == IF tryDebit THEN SubtractUserBalance(bal, total, res) ELSE bal
            newLedger == IF appended
                         THEN CreateTransaction(ledger, a, total)
                         ELSE ledger
            newNext == IF advanced THEN UpdateDailyChargeTime(now) ELSE nextCharge[s]
            newStatus == StatusAfterCharge(status[s], suspend, advanced)
        IN  /\ tryDebit => DebitPossible(bal, total, res)
            /\ balance' = [balance EXCEPT ![a] = newBal]
            /\ seen' = [seen EXCEPT ![a] = IF debited THEN newBal ELSE @]
            /\ ledger' = newLedger
            /\ nextCharge' = [nextCharge EXCEPT ![s] = newNext]
            /\ status' = [status EXCEPT ![s] = newStatus]
            /\ debitCount' = [debitCount EXCEPT ![s] =
                                 IF advanced THEN 0
                                 ELSE IF debited THEN @ + 1 ELSE @]
            /\ blocked' = IF waitsForOracle THEN "oracle"
                          ELSE IF waitsForSync THEN "sync" ELSE "none"
            /\ batch' = IF returned THEN RestOfBatch(batch, s, outcome) ELSE batch
            /\ cpass' = [cpass EXCEPT
                            !.done = IF returned THEN @ \cup {s} ELSE @,
                            !.raised = IF user = "raises" THEN @ \cup {s} ELSE @,
                            !.debits = IF debited THEN @ + 1 ELSE @]
            /\ stats' = IF ~returned THEN stats
                        ELSE CASE outcome = "charged" -> [stats EXCEPT !.charged = @ + 1]
                               [] outcome = "suspended" -> [stats EXCEPT !.suspended = @ + 1]
                               [] OTHER -> [stats EXCEPT !.errors = @ + 1]
            /\ last' = IF ~returned THEN last
                       ELSE [sub |-> s, outcome |-> outcome,
                             price |-> price, devices |-> device_count,
                             balBefore |-> bal, balAfter |-> newBal,
                             debit |-> IF tryDebit THEN res ELSE "none",
                             nextBefore |-> nextCharge[s], nextAfter |-> newNext,
                             statusAfter |-> newStatus,
                             ledgerBefore |-> Len(ledger),
                             oracle |-> IF keep /\ counted THEN o ELSE NoOracle,
                             notice |-> Notification(outcome),
                             seenBefore |-> inSession]
    /\ UNCHANGED <<now, pc, daily, decayVars>>

\* The same with calls of the panel that always come back.
ProcessSingleCharge == ProcessSingleChargeIf({"returns"}, FALSE)

\* The batch is exhausted: commit and return the counters (the locals of the
\* call are gone afterwards).
ReturnChargeStats ==
    /\ pc = "charge"
    /\ batch = {}
    /\ pc' = "idle"
    /\ stats' = ZeroStats
    /\ last' = NoCharge
    /\ cpass' = NoPass
    /\ UNCHANGED <<now, balance, status, nextCharge, daily, ledger, debitCount, batch,
                   seen, blocked>>
    /\ UNCHANGED decayVars

\* The charge processor called on its own.
ChargeBegin == QueryDueSubscriptions /\ UNCHANGED driverVars
ChargeStep == ProcessSingleCharge /\ UNCHANGED driverVars
ChargeEnd == ReturnChargeStats /\ UNCHANGED driverVars

NextCharge == ChargeBegin \/ ChargeStep \/ ChargeEnd \/ Tick

SpecCharge == InitChargeWorld /\ [][NextCharge]_vars

\* ------------------------------------------------------------------------
\* The charge processor in an open environment: the accounts have other
\* spenders and a call of the panel need not come back.

\* Another debit of an account that is under per-day billing (another
\* instance of the loop, a purchase in the bot), through the same primitive,
\* between any two steps of the pass; the session of the pass does not see it.
OtherDebit ==
    /\ \E a \in {UserId(s) : s \in {x \in Subs : daily[x]}}, amount \in 1..MaxPrice :
          /\ DebitPossible(balance[a], amount, "success")
          /\ balance' = [balance EXCEPT
                            ![a] = SubtractUserBalance(balance[a], amount, "success")]
    /\ UNCHANGED <<now, pc, status, nextCharge, daily, ledger, debitCount, batch, stats,
                   last, cpass, seen, blocked>>
    /\ UNCHANGED <<decayVars, driverVars>>

OpenChargeStep == ProcessSingleChargeIf(ExternalCalls, TRUE) /\ UNCHANGED driverVars

\* The passes of one billing cycle: the clock stands still.
NextOpen == ChargeBegin \/ OpenChargeStep \/ ChargeEnd \/ OtherDebit

\* The event loop runs a coroutine whose awaited call has come back: a step
\* of the pass that can be taken is taken.
SpecOpen ==
    /\ InitChargeWorld
    /\ [][NextOpen]_vars
    /\ WF_vars(OpenChargeStep)
    /\ WF_vars(ChargeEnd)

\* ======================================================================
\*                 process_traffic_resets / _reset_subscription_traffic
\* ======================================================================
\* old_purchased = subscription.purchased_traffic_gb or 0
OldPurchased(stored) == OrZero(stored)

\* Faulty variant: the clamp leaves one gigabyte too many.
ClampExpired_OneTooMany(total_expired_gb, old_purchased) ==
    IF total_expired_gb > old_purchased THEN old_purchased + 1 ELSE total_expired_gb

\* Faulty variant: the expired total is not clamped.
ClampExpired_NoClamp(total_expired_gb, old_purchased) == total_expired_gb

\* total_expired_gb after the data-integrity clamp.
ClampExpired(total_expired_gb, old_purchased) ==
    IF total_expired_gb > old_purchased THEN old_purchased ELSE total_expired_gb

\* Faulty variant: a negative base limit is kept.
BaseLimit_NoFloor(old_limit, old_purchased, tariffFound, tariff_base_limit) ==
    old_limit - old_purchased

\* base_limit: the part of the limit that is not purchased; a negative value
\* is replaced by the tariff's limit when the tariff is found, then floored.
BaseLimit(old_limit, old_purchased, tariffFound, tariff_base_limit) ==
    LET base == old_limit - old_purchased
        fixed == IF tariffFound /\ base < 0 THEN tariff_base_limit ELSE base
    IN  Max(0, fixed)

\* Faulty variant: the new limit forgets the purchases that are still valid.
Reconcile_DropsPurchased(old_limit, old_purchased, total, tariffFound, tariff_base_limit) ==
    LET base_limit == BaseLimit(old_limit, old_purchased, tariffFound, tariff_base_limit)
    IN  [reclaimed |-> ClampExpired(total, old_purchased), base |-> base_limit,
         guard |-> FALSE, limit |-> base_limit,
         purchased |-> old_purchased - ClampExpired(total, old_purchased)]

\* Faulty variant: the expired total is taken off the limit a second time.
Reconcile_SubtractsTwice(old_limit, old_purchased, total, tariffFound, tariff_base_limit) ==
    LET total_expired_gb == ClampExpired(total, old_purchased)
        base_limit == BaseLimit(old_limit, old_purchased, tariffFound, tariff_base_limit)
        new_purchased == old_purchased - total_expired_gb
        new_limit == base_limit + new_purchased - total_expired_gb
        guard == new_limit < base_limit
    IN  [reclaimed |-> total_expired_gb, base |-> base_limit, guard |-> guard,
         limit |-> Max(0, IF guard THEN base_limit ELSE new_limit),
         purchased |-> Max(0, IF guard THEN 0 ELSE new_purchased)]

\* The new quota fields of a subscription whose expired purchases sum to total.
Reconcile(old_limit, old_purchased, total, tariffFound, tariff_base_limit) ==
    LET total_expired_gb == ClampExpired(total, old_purchased)
        base_limit == BaseLimit(old_limit, old_purchased, tariffFound, tariff_base_limit)
        new_purchased == old_purchased - total_expired_gb
        new_limit == base_limit + new_purchased
        guard == new_limit < base_limit
    IN  [reclaimed |-> total_expired_gb,
         base |-> base_limit,
         guard |-> guard,
         limit |-> Max(0, IF guard THEN base_limit ELSE new_limit),
         purchased |-> Max(0, IF guard THEN 0 ELSE new_purchased)]

\* Faulty variant: the expired purchases are left in the table.
DeletePurchases_Nothing(rows, purchases) == rows

\* db.delete(purchase) for every expired purchase of the group.
DeletePurchases(rows, purchases) == rows \ purchases

\* TrafficPurchase.expires_at <= now
Expired(l) == lotExp[l] <= now

ExpiredPurchases == {l \in alive : Expired(l)}

\* Faulty variant: validity is judged as of the selection of the pass.
RemainingPurchases_AsOfSelection(rows, s) ==
    {l \in rows : LotSub(l) = s /\ lotExp[l] > run.at}

\* The purchases of the subscription that are still valid, out of rows.
RemainingPurchases(rows, s) == {l \in rows : LotSub(l) = s /\ lotExp[l] > now}

\* Opens the session and selects the expired purchases; when the query
\* raises, the pass ends with empty counters.
QueryExpiredPurchases ==
    /\ pc = "idle"
    /\ \E queryFails \in BOOLEAN :
          IF queryFails
          THEN /\ selected' = Selected(TRUE, ExpiredPurchases)
               /\ dstats' = ZeroDecayStats
               /\ run' = [at |-> now, ok |-> FALSE]
          ELSE /\ selected' = Selected(FALSE, ExpiredPurchases)
               /\ dstats' = [ZeroDecayStats EXCEPT !.checked = Cardinality(ExpiredPurchases)]
               /\ run' = [at |-> now, ok |-> TRUE]
    /\ pc' = "decay"
    /\ dlast' = NoReset
    /\ UNCHANGED <<now, chargeVars, lotVars, quotaVars, prev, held>>

\* What the calls inside _reset_subscription_traffic can do:
\*   "ok"            every call returns
\*   "tariff_raises" get_tariff_by_id raises, before anything is changed
\*   "query_raises"  the query for the remaining purchases raises, after the
\*                   deletes and the new quota fields are in the session
\*                   (the next commit of the session writes them)
\*   "user_raises"   get_user_by_id raises, after the commit
ResetFaults == {"ok", "tariff_raises", "query_raises", "user_raises"}

\* _reset_subscription_traffic for subscription s, and the counters of the
\* caller, from the row as it was loaded: its traffic_limit_gb and its
\* purchased_traffic_gb.
ReconcileGroup(s, old_limit, stored_purchased) ==
    /\ \E tariffFound \in BOOLEAN, fault \in ResetFaults :
        LET purchases == {l \in selected : LotSub(l) = s}
            found == s \in subExists
            old_purchased == OldPurchased(stored_purchased)
            total == SumGb(lotGb, purchases)
            r == Reconcile(old_limit, old_purchased, total, tariffFound, tariffLimit)
            written == found /\ fault # "tariff_raises"
            finished == found /\ fault \in {"ok", "user_raises"}
            rows == IF written THEN DeletePurchases(alive, purchases) ELSE alive
            result == IF ~found THEN "not_found"
                      ELSE IF fault = "tariff_raises" THEN "error"
                      ELSE IF fault = "query_raises" THEN "error_after_write"
                      ELSE IF fault = "user_raises" THEN "error_after_commit"
                      ELSE "reset"
        IN  /\ fault = "tariff_raises" => tariffFound
            /\ ~found => fault = "ok" /\ tariffFound
            /\ alive' = rows
            /\ limit' = IF written THEN [limit EXCEPT ![s] = r.limit] ELSE limit
            /\ purchased' = IF written
                            THEN [purchased EXCEPT ![s] = Some(r.purchased)]
                            ELSE purchased
            /\ resetAt' = IF finished
                          THEN [resetAt EXCEPT ![s] =
                                   NextExpiry(lotExp, RemainingPurchases(rows, s))]
                          ELSE resetAt
            /\ selected' = selected \ purchases
            /\ dstats' = IF found /\ fault # "ok"
                         THEN [dstats EXCEPT !.errors = @ + 1]
                         ELSE [dstats EXCEPT !.reset = @ + Cardinality(purchases)]
            /\ run' = IF found /\ fault # "ok" THEN [run EXCEPT !.ok = FALSE] ELSE run
            /\ dlast' = [sub |-> s, result |-> result,
                         oldLimit |-> old_limit, oldPurchased |-> old_purchased,
                         sumExpired |-> total,
                         reclaimed |-> IF written THEN r.reclaimed ELSE 0,
                         base |-> IF written THEN r.base ELSE 0,
                         guard |-> written /\ r.guard,
                         purchases |-> purchases,
                         at |-> now]
    /\ UNCHANGED <<now, pc, chargeVars, lotVars, prev>>

\* One iteration of the loop over the grouped purchases, with nothing else
\* writing the subscription between the load of the row and the commit.
ResetSubscriptionTraffic ==
    /\ pc = "decay"
    /\ held = NoHeld
    /\ \E s \in {LotSub(l) : l \in selected} : ReconcileGroup(s, limit[s], purchased[s])
    /\ UNCHANGED held

\* Every group is handled: commit and return the counters.
ReturnResetStats ==
    /\ pc = "decay"
    /\ selected = {}
    /\ pc' = "idle"
    /\ prev' = [has |-> TRUE, ok |-> run.ok, at |-> run.at, end |-> now,
                limit |-> limit, purchased |-> purchased]
    /\ dstats' = ZeroDecayStats
    /\ dlast' = NoReset
    /\ run' = NoRun
    /\ UNCHANGED <<now, chargeVars, lotVars, quotaVars, selected, held>>

\* The decay processor called on its own.
DecayBegin == QueryExpiredPurchases /\ UNCHANGED driverVars
DecayStep == ResetSubscriptionTraffic /\ UNCHANGED driverVars
DecayEnd == ReturnResetStats /\ UNCHANGED driverVars

NextDecay == DecayBegin \/ DecayStep \/ DecayEnd \/ Tick

InitDecayWorld ==
    /\ now = 0
    /\ pc = "idle"
    /\ InitNoCharge
    /\ InitLots
    /\ InitNoDriver

SpecDecay == InitDecayWorld /\ [][NextDecay]_vars

\* The same processor started from stored quota fields that have drifted
\* from the purchases: any traffic_limit, any (also absent or negative)
\* purchased_traffic for s1, and possibly no subscription row for the
\* purchase of s2.
InitDrift ==
    /\ alive = Lots
    /\ lotGb \in {gb \in LotSizes : gb["l1"] = 1}
    /\ lotExp \in {e \in [Lots -> Times] : e["l3"] = 0}
    /\ subExists \in {Subs, Subs \ {"s2"}}
    /\ tariffLimit \in 0..MaxBase
    /\ \E lim \in 0..MaxLimit,
          pur \in {None} \cup {Some(n) : n \in -1..MaxPurchased} :
          /\ limit = [s \in Subs |->
                        IF s = "s1" THEN lim
                        ELSE tariffLimit + SumGb(lotGb, LotsOf(s))]
          /\ purchased = [s \in Subs |->
                            IF s = "s1" THEN pur
                            ELSE Some(SumGb(lotGb, LotsOf(s)))]
    /\ resetAt = [s \in Subs |-> NextExpiry(lotExp, LotsOf(s))]
    /\ InitPass

InitDriftWorld ==
    /\ now = 0
    /\ pc = "idle"
    /\ InitNoCharge
    /\ InitDrift
    /\ InitNoDriver

SpecDrift == InitDriftWorld /\ [][NextDecay]_vars

\* ------------------------------------------------------------------------
\* The decay processor next to a purchase of traffic made elsewhere in the
\* bot: _reset_subscription_traffic awaits between the load of the row
\* (lines 371-381) and the commit (line 453), and takes no lock.

\* The row is loaded: old_limit and old_purchased are read from it.
LoadSubscription ==
    /\ pc = "decay"
    /\ held = NoHeld
    /\ \E s \in {LotSub(l) : l \in selected} \cap subExists :
          held' = [sub |-> s, limit |-> limit[s], purchased |-> purchased[s]]
    /\ UNCHANGED <<now, pc, chargeVars, lotVars, quotaVars>>
    /\ UNCHANGED <<selected, dstats, dlast, run, prev>>

\* The rest of the call, computed from the row as loaded.
WriteSubscription ==
    /\ pc = "decay"
    /\ held # NoHeld
    /\ ReconcileGroup(held.sub, held.limit, held.purchased)
    /\ held' = NoHeld

\* A purchase of a new lot, committed by another session: the lot exists,
\* its gigabytes are added to traffic_limit and to purchased_traffic, and
\* traffic_reset_at is the earliest expiry of the valid lots.
BuyTraffic ==
    /\ \E l \in Lots \ alive :
          LET s == LotSub(l) IN
          /\ lotExp[l] > now
          /\ s \in subExists
          /\ alive' = alive \cup {l}
          /\ limit' = [limit EXCEPT ![s] = @ + lotGb[l]]
          /\ purchased' = [purchased EXCEPT ![s] = Some(OrZero(@) + lotGb[l])]
          /\ resetAt' = [resetAt EXCEPT ![s] =
                            NextExpiry(lotExp, RemainingPurchases(alive \cup {l}, s))]
    /\ UNCHANGED <<now, pc, chargeVars, lotVars, passVars>>

RaceBegin == QueryExpiredPurchases /\ UNCHANGED driverVars
RaceLoad == LoadSubscription /\ UNCHANGED driverVars
RaceWrite == WriteSubscription /\ UNCHANGED driverVars
RaceBuy == BuyTraffic /\ UNCHANGED driverVars
RaceEnd == ReturnResetStats /\ UNCHANGED driverVars

NextRace == RaceBegin \/ RaceLoad \/ RaceWrite \/ RaceBuy \/ RaceEnd \/ Tick

\* Two purchases exist, one of each subscription, and the quota fields agree
\* with them; a second purchase of s1, valid to the end, can be made.
InitRace ==
    /\ alive = {"l1", "l3"}
    /\ lotGb \in LotSizes
    /\ lotExp \in {e \in [Lots -> Times] : e["l2"] = MaxTime}
    /\ subExists = Subs
    /\ tariffLimit \in 0..MaxBase
    /\ purchased = [s \in Subs |-> Some(SumGb(lotGb, LotsOf(s) \cap alive))]
    /\ limit = [s \in Subs |-> tariffLimit + SumGb(lotGb, LotsOf(s) \cap alive)]
    /\ resetAt = [s \in Subs |-> NextExpiry(lotExp, LotsOf(s) \cap alive)]
    /\ InitPass

InitRaceWorld ==
    /\ now = 0
    /\ pc = "idle"
    /\ InitNoCharge
    /\ InitRace
    /\ InitNoDriver

SpecRace == InitRaceWorld /\ [][NextRace]_vars

\* ======================================================================
\*                      start_monitoring / stop_monitoring
\* ======================================================================
\* How a call of a processor comes back to the loop body.
CallResults == {"returned", "raised"}

\* Faulty variant: the loop body starts with the decay processor.
AfterCheck_SkipsCharge(isRunning) == IF isRunning THEN "decay" ELSE "done"

\* while self._running: the body starts with process_daily_charges.
AfterCheck(isRunning) == IF isRunning THEN "charging" ELSE "done"

\* Faulty variant: an exception of the charge processor ends the loop.
AfterCharge_Propagates(ret) == IF ret = "raised" THEN "done" ELSE "decay"

\* process_daily_charges returned: process_traffic_resets is next; an
\* exception is caught by the except of the body, which leads to the sleep.
AfterCharge(ret) == IF ret = "raised" THEN "sleep" ELSE "decay"

\* process_traffic_resets returned or raised: the sleep is next.
AfterDecay(ret) == "sleep"

\* start_monitoring() is called: the coroutine exists, its body has not run.
StartCall(l) ==
    /\ lpc[l] = "none"
    /\ lpc' = [lpc EXCEPT ![l] = "created"]
    /\ UNCHANGED <<running, lastRet, stopSeen, late>>

\* The coroutine runs up to the while: self._running = True.
Enter(l) ==
    /\ lpc[l] = "created"
    /\ running' = TRUE
    /\ lpc' = [lpc EXCEPT ![l] = "check"]
    /\ UNCHANGED <<lastRet, stopSeen, late>>

\* stop_monitoring(): self._running = False.
StopCall ==
    /\ running' = FALSE
    /\ stopSeen' = [l \in Loops |-> stopSeen[l] \/ lpc[l] \notin {"none", "done"}]
    /\ UNCHANGED <<lpc, lastRet, late>>

\* The test of the while.
Check(l) ==
    /\ lpc[l] = "check"
    /\ lpc' = [lpc EXCEPT ![l] = AfterCheck(running)]
    /\ late' = [late EXCEPT ![l] = @ \/ (running /\ stopSeen[l])]
    /\ UNCHANGED <<running, lastRet, stopSeen>>

ChargeReturn(l, ret) ==
    /\ lpc[l] = "charging"
    /\ lpc' = [lpc EXCEPT ![l] = AfterCharge(ret)]
    /\ lastRet' = [lastRet EXCEPT ![l] = ret]
    /\ UNCHANGED <<running, stopSeen, late>>

DecayCall(l) ==
    /\ lpc[l] = "decay"
    /\ lpc' = [lpc EXCEPT ![l] = "decaying"]
    /\ UNCHANGED <<running, lastRet, stopSeen, late>>

DecayReturn(l, ret) ==
    /\ lpc[l] = "decaying"
    /\ lpc' = [lpc EXCEPT ![l] = AfterDecay(ret)]
    /\ lastRet' = [lastRet EXCEPT ![l] = ret]
    /\ UNCHANGED <<running, stopSeen, late>>

\* asyncio.sleep is over.
Wake(l) ==
    /\ lpc[l] = "sleep"
    /\ lpc' = [lpc EXCEPT ![l] = "check"]
    /\ UNCHANGED <<running, lastRet, stopSeen, late>>

\* ------------------------------------------------------------------------
\* The loop control alone, for any calls of start_monitoring and
\* stop_monitoring; a call of a processor returns or raises.
world == <<now, pc, chargeVars, decayVars>>

DrvStart == \E l \in Loops : StartCall(l) /\ UNCHANGED <<world, it>>
DrvEnter == \E l \in Loops : Enter(l) /\ UNCHANGED <<world, it>>
DrvStop == StopCall /\ UNCHANGED <<world, it>>
DrvCheck == \E l \in Loops : Check(l) /\ UNCHANGED <<world, it>>
DrvChargeReturn ==
    \E l \in Loops, ret \in CallResults : ChargeReturn(l, ret) /\ UNCHANGED <<world, it>>
DrvDecayCall == \E l \in Loops : DecayCall(l) /\ UNCHANGED <<world, it>>
DrvDecayReturn ==
    \E l \in Loops, ret \in CallResults : DecayReturn(l, ret) /\ UNCHANGED <<world, it>>
DrvWake == \E l \in Loops : Wake(l) /\ UNCHANGED <<world, it>>

NextDriver ==
    \/ DrvStart \/ DrvEnter \/ DrvStop \/ DrvCheck
    \/ DrvChargeReturn \/ DrvDecayCall \/ DrvDecayReturn \/ DrvWake

InitDriverWorld ==
    /\ now = 0
    /\ pc = "idle"
    /\ InitNoCharge
    /\ InitNoLots
    /\ InitNoDriver

SpecDriver == InitDriverWorld /\ [][NextDriver]_vars

\* ------------------------------------------------------------------------
\* One loop with the two processors it calls.
LoopEnter == Enter("m1") /\ UNCHANGED <<world, it>>

LoopStop == StopCall /\ UNCHANGED <<world, it>>

\* The test of the while and, when it passes, the call of
\* process_daily_charges up to its query.
LoopCheck ==
    /\ Check("m1")
    /\ IF running
       THEN /\ QueryDueSubscriptions
            /\ it' = [NoIter EXCEPT !.chargeFailed = cpass'.queryFailed]
       ELSE UNCHANGED <<world, it>>

LoopChargeStep ==
    /\ lpc["m1"] = "charging"
    /\ ProcessSingleCharge
    /\ it' = [it EXCEPT !.debited = @ \/ cpass'.debits > cpass.debits,
                        !.suspended = @ \/ last'.outcome = "suspended"]
    /\ UNCHANGED loopVars

LoopChargeReturn ==
    /\ ChargeReturn("m1", "returned")
    /\ ReturnChargeStats
    /\ it' = [it EXCEPT !.chargeDone = TRUE]

LoopDecayCall ==
    /\ DecayCall("m1")
    /\ QueryExpiredPurchases
    /\ it' = [it EXCEPT !.decayFailed = ~run'.ok]

LoopDecayStep ==
    /\ lpc["m1"] = "decaying"
    /\ ResetSubscriptionTraffic
    /\ it' = [it EXCEPT !.reclaimed = @ \/ alive' # alive]
    /\ UNCHANGED loopVars

LoopDecayReturn ==
    /\ DecayReturn("m1", "returned")
    /\ ReturnResetStats
    /\ it' = [it EXCEPT !.decayDone = TRUE]

LoopWake == Wake("m1") /\ UNCHANGED <<world, it>>

NextLoop ==
    \/ LoopEnter \/ LoopStop \/ LoopCheck
    \/ LoopChargeStep \/ LoopChargeReturn
    \/ LoopDecayCall \/ LoopDecayStep \/ LoopDecayReturn
    \/ LoopWake \/ Tick

\* start_monitoring was called once.  One subscription is under per-day
\* billing and its account can pay one device-day; it has one expired lot
\* and one that is valid to the end.
InitLoopWorld ==
    /\ now = 0
    /\ pc = "idle"
    /\ balance = [a \in Accounts |-> 1]
    /\ status = [s \in Subs |-> "active"]
    /\ nextCharge = [s \in Subs |-> 0]
    /\ daily = [s \in Subs |-> s = "s1"]
    /\ ledger = <<>>
    /\ debitCount = [s \in Subs |-> 0]
    /\ batch = {}
    /\ stats = ZeroStats
    /\ last = NoCharge
    /\ cpass = NoPass
    /\ seen = balance
    /\ blocked = "none"
    /\ alive = LotsOf("s1")
    /\ lotGb = [l \in Lots |-> 1]
    /\ lotExp = [l \in Lots |-> IF l = "l2" THEN MaxTime ELSE 0]
    /\ subExists = Subs
    /\ tariffLimit = 0
    /\ purchased = [s \in Subs |-> Some(SumGb(lotGb, LotsOf(s) \cap alive))]
    /\ limit = [s \in Subs |-> tariffLimit + SumGb(lotGb, LotsOf(s) \cap alive)]
    /\ resetAt = [s \in Subs |-> NextExpiry(lotExp, LotsOf(s) \cap alive)]
    /\ InitPass
    /\ running = FALSE
    /\ lpc = [l \in Loops |-> IF l = "m1" THEN "created" ELSE "none"]
    /\ lastRet = [l \in Loops |-> "none"]
    /\ stopSeen = [l \in Loops |-> FALSE]
    /\ late = [l \in Loops |-> FALSE]
    /\ it = NoIter

SpecLoop == InitLoopWorld /\ [][NextLoop]_vars


\* ======================================================================
\*                      Properties of the charge processor
\* ======================================================================
Processed == last.sub # "none"
LastCharge == last.price * last.devices

C2_AtMostOneDebitPerCycle ==
    \A s \in Subs : debitCount[s] <= 1

\* C3: every account balance is an integer >= 0 in every reachable state,
\* also when several due subscriptions of one account are charged in a row.
C3_BalanceNonNegative ==
    \A a \in Accounts : balance[a] \in Nat

\* C3 witness: both subscriptions of account a1 were charged in one batch and
\* used the balance up.
C3_Witness ==
    /\ stats.charged = 2
    /\ balance["a1"] = 0

\* C4: the next-charge timestamp advances if and only if the debit succeeded:
\* after outcome charged it is strictly greater than before; after outcome
\* suspended, or error caused by a debit failure, it is unchanged and the
\* subscription remains due.
C4_AdvancesIffDebitSucceeded ==
    Processed =>
        /\ (last.nextAfter # last.nextBefore) <=> (last.debit = "success")
        /\ last.outcome = "charged" => last.nextAfter > last.nextBefore
        /\ (last.outcome = "suspended"
               \/ (last.outcome = "error" /\ last.debit \in {"refused", "raised"}))
              => /\ last.nextAfter = last.nextBefore
                 /\ last.nextAfter <= now

\* C5: a ledger entry is appended only after a successful debit of the same
\* amount from the same account, never for a suspended or error outcome, and
\* the entries already in the log are left as they were.
C5_EntryOnlyForChargedOutcome ==
    Processed =>
        /\ Len(ledger) \in {last.ledgerBefore, last.ledgerBefore + 1}
        /\ Len(ledger) = last.ledgerBefore + 1
              => /\ last.debit = "success"
                 /\ ledger[Len(ledger)] =
                        [account |-> UserId(last.sub), amount |-> LastCharge]
                 /\ last.outcome = "charged"
        /\ last.outcome \in {"suspended", "error"}
              => Len(ledger) = last.ledgerBefore

\* ======================================================================
\*                      Properties of the decay processor
\* ======================================================================
Written == dlast.result \in {"reset", "error_after_write", "error_after_commit"}
PassReturns == pc = "decay" /\ selected = {}
QuotaOrdered(s) ==
    /\ limit[s] >= OrZero(purchased[s])
    /\ OrZero(purchased[s]) >= 0

\* C6 (as stated): traffic_limit >= purchased_traffic >= 0 holds for every
\* subscription after every decay pass, for any stored values before it.
C6_QuotaOrderedAfterEveryPass ==
    (pc = "idle" /\ prev.has) => \A s \in subExists : QuotaOrdered(s)

\* C6 (amended): for every subscription whose expired lots a decay pass
\* reconciles, traffic_limit >= purchased_traffic >= 0 holds once the new
\* fields are written, for any stored values before (also inconsistent ones),
\* and the value written to purchased_traffic is never negative.
C6_ReconciledQuotaOrdered ==
    Written => /\ QuotaOrdered(dlast.sub)
               /\ purchased[dlast.sub] # None

\* C6 witness: a subscription stored with traffic_limit < purchased_traffic
\* and expired lots summing to more than purchased_traffic was reconciled.
C6_Witness ==
    /\ dlast.result = "reset"
    /\ dlast.oldLimit < dlast.oldPurchased
    /\ dlast.sumExpired > dlast.oldPurchased
    /\ QuotaOrdered(dlast.sub)

C8_ReclaimedIsClampedSum ==
    Written =>
        /\ dlast.reclaimed = Min(dlast.sumExpired, dlast.oldPurchased)
        /\ purchased[dlast.sub] = Some(dlast.oldPurchased - dlast.reclaimed)
        /\ dlast.sumExpired > dlast.oldPurchased
              => /\ dlast.reclaimed = dlast.oldPurchased
                 /\ purchased[dlast.sub] = Some(0)
        /\ dlast.purchases \cap alive = {}

\* C8 witness: the expired lots sum to more than the stored, positive
\* purchased_traffic (scenario D).
C8_Witness ==
    /\ dlast.result = "reset"
    /\ dlast.oldPurchased > 0
    /\ dlast.sumExpired > dlast.oldPurchased
    /\ purchased[dlast.sub] = Some(0)

NoExpiryBetween(t1, t2) ==
    \A l \in Lots : ~(t1 < lotExp[l] /\ lotExp[l] <= t2)

QuotaAsLeftByPreviousPass ==
    /\ limit = prev.limit
    /\ purchased = prev.purchased

Reconciled == dlast.result \in {"reset", "error_after_commit"}

C11_ResetAtIsEarliestExistingLot ==
    Reconciled =>
        resetAt[dlast.sub] = NextExpiry(lotExp, LotsOf(dlast.sub) \cap alive)

\* C11 (amended): after a subscription has been reconciled, traffic_reset_at
\* is the earliest expiry among its lots that were not yet expired at the time
\* of the query for the remaining lots, and is absent if and only if there is
\* no such lot; a lot that expired after the selection of the pass still
\* exists and is not counted.
C11_ResetAtIsEarliestValidLot ==
    Reconciled =>
        LET valid == {l \in LotsOf(dlast.sub) \cap alive : lotExp[l] > dlast.at}
        IN  /\ resetAt[dlast.sub] = NextExpiry(lotExp, valid)
            /\ resetAt[dlast.sub] = None <=> valid = {}
            /\ \A l \in (LotsOf(dlast.sub) \cap alive) \ valid : lotExp[l] > run.at

\* C11 witness: time advanced between the selection and the query, a lot that
\* expired in between still exists and traffic_reset_at is absent.
C11_Witness ==
    /\ dlast.result = "reset"
    /\ dlast.at > run.at
    /\ LotsOf(dlast.sub) \cap alive # {}
    /\ resetAt[dlast.sub] = None

C17_BatchIsolatesFailures ==
    [][/\ pc' = "charge"
          => /\ cpass'.done \cap batch' = {}
             /\ cpass'.done \cup batch' = cpass'.picked
             /\ stats'.charged + stats'.suspended + stats'.errors
                    = Cardinality(cpass'.done)
       /\ (pc = "charge" /\ batch' # batch)
          => /\ Cardinality(cpass'.done) = Cardinality(cpass.done) + 1
             /\ \A s \in cpass.done :
                    /\ nextCharge'[s] = nextCharge[s]
                    /\ status'[s] = status[s]
             /\ SubSeq(ledger', 1, Len(ledger)) = ledger
       /\ (pc = "charge" /\ pc' = "idle")
          => cpass.done = cpass.picked]_vars

\* C17 witness: the account lookup of the first subscription of a batch
\* raised, and the second subscription was charged after it.
C17_Witness ==
    /\ cpass.raised # {}
    /\ last.outcome = "charged"
    /\ last.sub \notin cpass.raised
    /\ cpass.done = cpass.picked

\* C18: process_daily_charges returns the counters checked, charged,
\* suspended, errors; checked is the number of due subscriptions selected,
\* charged + suspended + errors = checked for every completed batch, and
\* charged is the number of debits the batch persisted.
C18_CountersAddUp ==
    (pc = "charge" /\ batch = {})
        => /\ stats.checked = Cardinality(cpass.picked)
           /\ stats.charged + stats.suspended + stats.errors = stats.checked
           /\ stats.charged = cpass.debits

\* C20: a failure of the notification or of the panel sync, or of a lookup
\* made only for them, never changes the billing result: a reconciliation
\* whose only failure is the account lookup made for the notification leaves
\* the same quota fields and the same counters as one that was notified.
C20_SideCallsNeverAffectResult ==
    [][(pc = "decay" /\ dlast' # dlast /\ dlast'.result = "error_after_commit")
          => /\ dstats' = [dstats EXCEPT
                              !.reset = @ + Cardinality(dlast'.purchases)]
             /\ dlast'.purchases \cap alive' = {}]_vars

\* ======================================================================
\*                      Properties of the driver loop
\* ======================================================================
Stage == lpc["m1"]
Looping(l) == lpc[l] \in {"check", "charging", "decay", "decaying", "sleep"}

\* C13: in every iteration of the loop the charge processor has run to
\* completion before the decay processor starts, the two are never running
\* at the same time, and the loop sleeps only after both have finished.
C13_ChargeThenDecayThenSleep ==
    /\ pc = "charge" => Stage = "charging"
    /\ pc = "decay" => Stage = "decaying"
    /\ Stage = "charging" => pc = "charge" /\ ~it.chargeDone /\ ~it.decayDone
    /\ Stage \in {"decay", "decaying"} => it.chargeDone /\ ~it.decayDone
    /\ Stage = "decay" => pc = "idle"
    /\ Stage = "sleep" => pc = "idle" /\ it.chargeDone /\ it.decayDone

\* C13 witness: the loop sleeps after an iteration in which the charge
\* processor debited an account and the decay processor destroyed a lot.
C13_Witness ==
    /\ Stage = "sleep"
    /\ it.debited
    /\ it.reclaimed

\* C14: an exception raised by either processor never ends the loop: the
\* loop goes to its sleep, wakes to the test of the while, and leaves only
\* through that test, when stop_monitoring has cleared the flag.
C14_ExceptionNeverEndsLoop ==
    [][\A l \in Loops :
          /\ (lpc[l] \in {"charging", "decaying"} /\ lpc'[l] # lpc[l]
                 /\ lastRet'[l] = "raised")
                => lpc'[l] = "sleep"
          /\ (lpc[l] = "sleep" /\ lpc'[l] # lpc[l]) => lpc'[l] = "check"
          /\ (lpc[l] = "check" /\ lpc'[l] # lpc[l])
                => lpc'[l] = IF running THEN "charging" ELSE "done"
          /\ (lpc'[l] = "done" /\ lpc[l] # "done")
                => (lpc[l] = "check" /\ ~running)]_vars

\* C14 witness: a loop that was never stopped is in a new iteration after
\* the decay processor raised in the one before.
C14_Witness ==
    \E l \in Loops :
        /\ lastRet[l] = "raised"
        /\ lpc[l] = "charging"
        /\ ~stopSeen[l]

\* C15: once stop_monitoring has been called after start_monitoring (before
\* the first iteration, during an iteration or during the sleep), the loop
\* begins no new iteration.
C15_NoIterationAfterStop ==
    \A l \in Loops : ~late[l]

\* C16: at most one loop is running at any time, for any sequence of calls of
\* start_monitoring and stop_monitoring.
C16_AtMostOneLoop ==
    Cardinality({l \in Loops : Looping(l)}) <= 1

\* C19 (as stated): if the query for the due subscriptions or for the
\* expired lots fails, the whole iteration is aborted: in that iteration no
\* account is debited, no subscription is suspended and no lot is reclaimed.
C19_FailedQueryAbortsIteration ==
    (it.chargeFailed \/ it.decayFailed)
        => (~it.debited /\ ~it.suspended /\ ~it.reclaimed)

\* C19 (amended): if the query for the due subscriptions fails, the charge
\* pass of that iteration debits no account and suspends no subscription; if
\* the query for the expired lots fails, the decay pass of that iteration
\* reclaims no lot; the other processor of the iteration runs as usual, the
\* loop goes on to its sleep and leaves only when it has been stopped.
C19_FailedQueryAbortsPass ==
    /\ it.chargeFailed => (~it.debited /\ ~it.suspended)
    /\ it.decayFailed => ~it.reclaimed
    /\ (Stage = "charging" /\ it.chargeFailed)
          => (batch = {} /\ stats = ZeroStats /\ last = NoCharge)
    /\ (Stage = "decaying" /\ it.decayFailed)
          => (selected = {} /\ dstats = ZeroDecayStats /\ dlast = NoReset)
    /\ Stage = "done" => ~running

\* C19 witness: the query for the due subscriptions failed, the decay
\* processor of the same iteration destroyed a lot, and the loop sleeps.
C19_Witness ==
    /\ Stage = "sleep"
    /\ it.chargeFailed
    /\ it.reclaimed
    /\ ~it.debited


\* ======================================================================
\*          The charge processor: device count, frame, open environment
\* ======================================================================
\* The last call asked the oracle (it got past the lookups and the price).
OracleAsked == Processed /\ last.oracle.kind # "none"

\* C21: the device count of a charge is an integer >= 1: the count the
\* oracle reports, floored to 1, and exactly 1 when the account has no
\* provisioning identity, the oracle is not configured or the call fails;
\* the charge goes on with that value (the balance is compared with, and
\* debited by, price * count).
C21_DeviceCountFlooredToOne ==
    OracleAsked =>
        /\ last.devices >= 1
        /\ last.oracle.kind = "ok" /\ last.oracle.total >= 1
               => last.devices = last.oracle.total
        /\ last.oracle.kind = "ok" /\ last.oracle.total < 1 => last.devices = 1
        /\ last.oracle.kind # "ok" => last.devices = 1
        /\ last.outcome = "suspended" \/ last.debit # "none"
        /\ last.outcome = "suspended" => last.seenBefore < LastCharge
        /\ last.debit = "success" => last.balBefore - last.balAfter = LastCharge

\* The call of the oracle failed and the subscription was charged for one
\* device.
C21_Witness ==
    /\ OracleAsked
    /\ last.oracle.kind = "failed"
    /\ last.outcome = "charged"
    /\ last.devices = 1
    /\ last.balAfter = last.balBefore - last.price

\* C22 (as stated): a call of the panel that never returns is treated as a
\* failure, so every pass that was started completes and returns its
\* counters.
C22_EveryBatchCompletes == (pc = "charge") ~> (pc = "idle")

C26_UnresolvedChangesNothing ==
    [][(pc = "charge" /\ batch' # batch
            /\ last'.outcome = "error" /\ last'.debit = "none")
        => /\ UNCHANGED <<balance, ledger, status, nextCharge>>
           /\ last'.notice = "none"
           /\ stats' = [stats EXCEPT !.errors = @ + 1]
           /\ batch' = batch \ {last'.sub}
           /\ pc' = "charge"]_vars

\* Such a subscription was handled (its lookups did not raise) and another
\* one of the batch is still to come.
C26_Witness ==
    /\ Processed
    /\ last.outcome = "error"
    /\ last.debit = "none"
    /\ last.sub \notin cpass.raised
    /\ last.notice = "none"
    /\ last.balAfter = last.balBefore
    /\ last.nextAfter = last.nextBefore
    /\ batch # {}
    /\ stats.errors = 1

\* C28 (as stated): every debit of the processor comes with exactly one
\* ledger entry of the same amount for the same account.
C28_EveryDebitHasItsEntry ==
    [][\A a \in Accounts :
          balance'[a] # balance[a] =>
              ledger' = CreateTransaction(ledger, a, balance[a] - balance'[a])]_vars

\* C30 (as stated): the account of a subscription whose status is disabled
\* is never debited.
C30_NeverDebitsDisabled ==
    [][\A s \in Subs :
          (pc = "charge" /\ s \in batch /\ s \notin batch' /\ status[s] = "disabled")
              => balance' = balance]_vars


\* ======================================================================
\*        The decay processor: concurrent purchase, counters, guard
\* ======================================================================
\* The quota fields of s account for exactly the purchases that exist.
QuotaMatchesLots(s) ==
    /\ purchased[s] = Some(SumGb(lotGb, LotsOf(s) \cap alive))
    /\ limit[s] = tariffLimit + SumGb(lotGb, LotsOf(s) \cap alive)

\* C23 (as stated): in every interleaving of a reconciliation with a
\* purchase of a new lot for the same subscription, the gigabytes of the
\* purchase are still in traffic_limit and purchased_traffic afterwards.
C23_PurchaseSurvivesReconciliation ==
    \A s \in Subs : held.sub # s => QuotaMatchesLots(s)

\* C25 (as stated): reset grows by the number of lots of a group exactly
\* when the group was deleted and its subscription reconciled and committed
\* (not when the subscription was not found), and such a group is not
\* counted in errors; checked is not touched by the loop.
C25_ResetCountsReconciledLots ==
    [][(pc = "decay" /\ selected' # selected)
        => /\ dstats'.checked = dstats.checked
           /\ dstats'.reset = dstats.reset +
                 IF dlast'.result \in {"reset", "error_after_commit"}
                 THEN Cardinality(dlast'.purchases) ELSE 0
           /\ dlast'.result \in {"reset", "error_after_commit"}
                 => dstats'.errors = dstats.errors]_vars

\* C27: the final guard is never taken: whatever traffic_limit and
\* purchased_traffic are stored (also negative or absent) and whatever lots
\* expire, after the two clamps new_purchased is not negative and
\* new_limit = base_limit + new_purchased is not below base_limit.
C27_FinalGuardNeverTaken ==
    Written =>
        /\ ~dlast.guard
        /\ dlast.oldPurchased - dlast.reclaimed >= 0
        /\ dlast.base + (dlast.oldPurchased - dlast.reclaimed) >= dlast.base

\* A negative purchased_traffic was stored, the clamp cut the expired total
\* down to it, and the guard was not taken.
C27_Witness ==
    /\ Written
    /\ dlast.oldPurchased < 0
    /\ dlast.sumExpired > dlast.oldPurchased
    /\ dlast.reclaimed = dlast.oldPurchased
    /\ ~dlast.guard

\* C29 (as stated): a reconciliation that failed partway leaves nothing
\* behind: its expired lots still exist and traffic_limit and
\* purchased_traffic are as they were.
C29_FailedReconciliationLeavesNothing ==
    dlast.result \in {"error", "error_after_write"} =>
        /\ dlast.purchases \subseteq alive
        /\ limit[dlast.sub] = dlast.oldLimit
        /\ OldPurchased(purchased[dlast.sub]) = dlast.oldPurchased

=============================================================================
